---- MODULE Spec2Model ----
(***************************************************************************)
(* WeeklyPostManager (src/weekly_post_manager.py): the controller of the   *)
(* weekly status post of a Discord channel.  Text is modelled character by *)
(* character: a Python str is a sequence of one-character strings, and the *)
(* str methods the code calls (split, find, replace, strip, ljust, slices) *)
(* are operators that compute what Python computes.                        *)
(***************************************************************************)
EXTENDS Integers, Sequences, FiniteSets, TLC

(* ------------------------------ bounds -------------------------------- *)

\* the longest roster a controller is constructed with or grows to
MaxRoster == 2
\* streak values the streak store holds (update_streak stops there)
MaxStreak == 1
\* status posts (member lists) a run sends to the channel
MaxPosts == 2
\* process restarts of a run
MaxRestarts == 1
\* iso-week numbers the clock reaches
MaxWeek == 2
\* years the clock advances
MaxYear == 1
\* edits that are awaited at the same time (concurrent specification)
MaxInFlight == 2
\* handler calls of a run of the full specification
MaxCalls == 3

(* --------------------------- Python str ------------------------------- *)

Min2(a, b) == IF a <= b THEN a ELSE b
Max2(a, b) == IF a >= b THEN a ELSE b
MinOf(S) == CHOOSE x \in S : \A y \in S : x <= y

\* s[a:b] for 0 <= a
PySlice(s, a, b) == SubSeq(s, a + 1, Min2(b, Len(s)))
\* s[a:], where a may be negative (find returned -1)
PyFrom(s, a) == SubSeq(s, (IF a < 0 THEN Max2(Len(s) + a, 0) ELSE a) + 1, Len(s))

\* s.find(sub): the 0-based offset of the first occurrence, or -1
Find(s, sub) ==
    LET hits == {i \in 0..(Len(s) - Len(sub)) : SubSeq(s, i + 1, i + Len(sub)) = sub}
    IN  IF hits = {} THEN -1 ELSE MinOf(hits)

\* sub in s
Contains(s, sub) == Find(s, sub) # -1

RECURSIVE Replace(_, _, _)
\* s.replace(old, new): every non-overlapping occurrence, left to right (an empty old
\* puts new before every character and at the end)
Replace(s, old, new) ==
    IF old = <<>>
    THEN IF s = <<>> THEN new ELSE new \o <<Head(s)>> \o Replace(Tail(s), old, new)
    ELSE LET i == Find(s, old)
         IN  IF i = -1 THEN s
             ELSE PySlice(s, 0, i) \o new \o Replace(PyFrom(s, i + Len(old)), old, new)

RECURSIVE Split(_, _)
\* s.split(sep) for a one-character sep
Split(s, sep) ==
    LET i == Find(s, <<sep>>)
    IN  IF i = -1 THEN <<s>> ELSE <<PySlice(s, 0, i)>> \o Split(PyFrom(s, i + 1), sep)

RECURSIVE Join(_, _)
\* sep.join(parts)
Join(parts, sep) ==
    IF parts = <<>> THEN <<>>
    ELSE IF Len(parts) = 1 THEN parts[1]
    ELSE parts[1] \o <<sep>> \o Join(Tail(parts), sep)

Whitespace == {" ", "\n"}

RECURSIVE LStrip(_)
LStrip(s) == IF s # <<>> /\ Head(s) \in Whitespace THEN LStrip(Tail(s)) ELSE s

RECURSIVE RStrip(_)
RStrip(s) ==
    IF s # <<>> /\ s[Len(s)] \in Whitespace THEN RStrip(SubSeq(s, 1, Len(s) - 1)) ELSE s

\* s.strip()
Strip(s) == RStrip(LStrip(s))

RECURSIVE Spaces(_)
Spaces(n) == IF n <= 0 THEN <<>> ELSE <<" ">> \o Spaces(n - 1)

\* s.ljust(w)
LJust(s, w) == s \o Spaces(w - Len(s))

\* s.split('(')[0]
BeforeParen(s) == Split(s, "(")[1]

Digits == <<"0", "1", "2", "3", "4", "5", "6", "7", "8", "9">>

RECURSIVE Str(_)
\* f"{n}" for n >= 0
Str(n) == IF n < 10 THEN <<Digits[n + 1]>> ELSE Str(n \div 10) \o <<Digits[(n % 10) + 1]>>

\* s.count(c) for a one-character c
RECURSIVE Count(_, _)
Count(s, c) == IF s = <<>> THEN 0 ELSE (IF Head(s) = c THEN 1 ELSE 0) + Count(Tail(s), c)


(* ----------------------------- the team ------------------------------- *)

\* discord_id of the TeamMember objects handed to the controller
Members == {1, 2, 3}

\* TeamMember.name
Name(m) ==
    CASE m = 1 -> <<"A", "l">>
      [] m = 2 -> <<"A", "l", "i", "c", "e">>
      [] OTHER -> <<"J", " ", "D">>

\* the question mark and the check mark of a status line (one code point each)
Pending == "?"
Done == "+"

RECURSIVE Perms(_)
\* the orderings of a set of members
Perms(S) ==
    IF S = {} THEN {<<>>}
    ELSE UNION {{<<m>> \o p : p \in Perms(S \ {m})} : m \in S}

\* the team_members lists a controller is constructed with
Rosters == UNION {Perms(S) : S \in {T \in SUBSET Members : Cardinality(T) <= MaxRoster}}

InRoster(r, m) == \E i \in 1..Len(r) : r[i] = m

\* max((len(m.name) for m in team_members), default=0)
MaxNameLength(r) ==
    IF r = <<>> THEN 0
    ELSE CHOOSE n \in {Len(Name(r[i])) : i \in 1..Len(r)} :
            \A i \in 1..Len(r) : Len(Name(r[i])) <= n

(* ----------------------------- the state ------------------------------ *)

VARIABLES
    team_members,             \* self.team_members: sequence of discord ids
    max_name_length,          \* self.max_name_length
    editable_weekly_post,     \* self.editable_weekly_post: [id, content]; id 0 is None
    editable_weekly_post_id,  \* self.editable_weekly_post_id; 0 is None
    weekly_post_timestamp,    \* self.weekly_post_timestamp; NoTime is None
    file,                     \* weekly_post_data.json
    channel,                  \* the messages of the Discord channel; a message's id is its index
    streaks,                  \* the streak store behind db.get_streak / db.update_streak
    now,                      \* datetime.now(): [year, week]
    restarts,                 \* restarts so far
    inflight,                 \* edits awaited by suspended update_post / rebuild_post calls
    calls,                    \* handler calls so far (counted by the full specification)
    last                      \* the call that produced this state: [op, member, outcome]

vars == <<team_members, max_name_length, editable_weekly_post, editable_weekly_post_id,
          weekly_post_timestamp, file, channel, streaks, now, restarts, inflight, calls,
          last>>

NoTime == [year |-> 0, week |-> 0]
NoPost == [id |-> 0, content |-> <<>>]
NoFile == [exists |-> FALSE, post_id |-> 0, timestamp |-> NoTime]
EmptyFile == [exists |-> TRUE, post_id |-> 0, timestamp |-> NoTime]

\* dt.isocalendar()[1]
IsoWeek(t) == t.week

Call(op, m, outcome) == [op |-> op, member |-> m, outcome |-> outcome]

\* the member-list messages of the channel
Boards == {i \in 1..Len(channel) : channel[i].kind = "board"}

(* ------------------------- rendering a line --------------------------- *)

\* f"(Streak: {streak} {'day' if streak == 1 else 'days'})"
StreakStr(streak) ==
    <<"(", "S", "t", "r", "e", "a", "k", ":", " ">> \o Str(streak) \o <<" ">>
    \o (IF streak = 1 THEN <<"d", "a", "y">> ELSE <<"d", "a", "y", "s">>) \o <<")">>

\* the backquote that opens and closes the code span of a line (SANY's lexer
\* does not accept a backquote inside a string: an apostrophe stands for it)
Tick == "'"

FivePending == <<Pending, Pending, Pending, Pending, Pending>>

\* f"# `{name.ljust(width)} {marks} (Streak: {streak} {day_suffix})`"
MemberLine(name, width, marks, streak) ==
    <<"#", " ", Tick>> \o LJust(name, width) \o <<" ">> \o marks \o <<" ">>
    \o StreakStr(streak) \o <<Tick>>

\* next((line for line in lines if name in line), None): 0 stands for None
FirstLineWith(lines, name) ==
    LET hits == {i \in 1..Len(lines) : Contains(lines[i], name)}
    IN  IF hits = {} THEN 0 ELSE MinOf(hits)

\* member_list of initialize_post, joined
InitialContent(r, width, st) ==
    Join([i \in 1..Len(r) |-> MemberLine(Name(r[i]), width, FivePending, st[r[i]])], "\n")

(* --------------------------- update_post ------------------------------ *)

\* lines 101-102: the index of the line update_post picks for `name`, 0 for None
LineToEditIndex(content, name) == FirstLineWith(Split(content, "\n"), name)

\* line 108: line_to_edit.replace("#", "").strip()
LineToEdit(content, name) ==
    Strip(Replace(Split(content, "\n")[LineToEditIndex(content, name)], <<"#">>, <<>>))

\* lines 111-112: name_end = line.find(' '); marks_streak = line[name_end:].strip()
MarksStreak(line) == Strip(PyFrom(line, Find(line, <<" ">>)))

\* lines 115-126: the line written for the member, given a pending mark in marks_streak
NewLine(name, width, marks_streak, streak) ==
    LET first_question_mark == Find(marks_streak, <<Pending>>)
        new_marks_streak == PySlice(marks_streak, 0, first_question_mark) \o <<Done>>
                            \o PyFrom(marks_streak, first_question_mark + 1)
    IN  <<Tick>> \o LJust(name, width) \o <<" ">> \o Strip(BeforeParen(new_marks_streak))
        \o <<" ">> \o StreakStr(streak) \o <<Tick>>

\* what update_post does with this content: "not_found" (line 105), "complete"
\* (line 117) or "edited" (line 132)
UpdateOutcome(content, name) ==
    IF LineToEditIndex(content, name) = 0 THEN "not_found"
    ELSE IF Find(MarksStreak(LineToEdit(content, name)), <<Pending>>) = -1 THEN "complete"
    ELSE "edited"

\* line 129: content.replace(line_to_edit, new_line)
UpdatedContent(content, name, width, streak) ==
    LET line_to_edit == LineToEdit(content, name)
    IN  Replace(content, line_to_edit,
                NewLine(name, width, MarksStreak(line_to_edit), streak))

(* --------------------------- rebuild_post ----------------------------- *)

\* the marks carried over with the two tests of lines 278-284 in the other order: the
\* pending marks are looked for first
ExistingMarksPendingFirst(content, name) ==
    LET lines == Split(content, "\n")
        i == FirstLineWith(lines, name)
    IN  IF i = 0 \/ lines[i] = <<>> THEN FivePending
        ELSE LET first_checkmark == Find(lines[i], <<Done>>)
                 first_question_mark == Find(lines[i], <<Pending>>)
             IN  IF first_question_mark # -1
                 THEN PySlice(lines[i], first_question_mark, first_question_mark + 5)
                 ELSE IF first_checkmark # -1
                 THEN PySlice(lines[i], first_checkmark, first_checkmark + 5)
                 ELSE FivePending

\* lines 268-284: the marks rebuild_post carries over for `name`
ExistingMarks(content, name) ==
    LET lines == Split(content, "\n")
        i == FirstLineWith(lines, name)
    IN  IF i = 0 \/ lines[i] = <<>> THEN FivePending
        ELSE LET first_checkmark == Find(lines[i], <<Done>>)
                 first_question_mark == Find(lines[i], <<Pending>>)
             IN  IF first_checkmark # -1
                 THEN PySlice(lines[i], first_checkmark, first_checkmark + 5)
                 ELSE IF first_question_mark # -1
                 THEN PySlice(lines[i], first_question_mark, first_question_mark + 5)
                 ELSE FivePending

\* lines 265-295: new_content of rebuild_post
RebuiltContent(r, content, width, st) ==
    Join([i \in 1..Len(r) |->
            MemberLine(Name(r[i]), width, ExistingMarks(content, Name(r[i])), st[r[i]])],
         "\n")

(* ---------------------- the checkmark predicates ---------------------- *)

\* content[start_index:start_index + 5] of has_minimum_checkmarks / has_all_checkmarks
ExistingLine(content, name, width) ==
    LET start_index == Find(content, name) + width + 1
    IN  PySlice(content, start_index, start_index + 5)

has_minimum_checkmarks(content, name, width, n) ==
    /\ Find(content, name) # -1
    /\ Count(ExistingLine(content, name, width), Done) >= n

has_all_checkmarks(content, name, width) ==
    /\ Find(content, name) # -1
    /\ \A i \in 1..Len(ExistingLine(content, name, width)) :
            ExistingLine(content, name, width)[i] = Done

(* ----------------------------- the channel ---------------------------- *)

\* channel.send(content): the message gets the next id
Send(msgs, kind, content) ==
    Append(msgs, [kind |-> kind, content |-> content, deleted |-> FALSE, created |-> now])

\* fetch_message(id) and message.edit succeed on a message that is in the channel
Live(msgs, id) == id \in 1..Len(msgs) /\ ~msgs[id].deleted

\* message.edit(content=content): the edited message is what the call returns
Edited(msgs, id, content) == [msgs EXCEPT ![id].content = content]

\* save_weekly_post_data, lines 52-57
SavedFile(id) == [exists |-> TRUE, post_id |-> id, timestamp |-> now]

(* ------------------------------ handlers ------------------------------ *)

\* a load that gives a record without a timestamp the first week of the clock, not None
LoadedWithDefaultTime(f) ==
    [post_id |-> IF f.exists THEN f.post_id ELSE 0,
     timestamp |-> IF f.exists /\ f.timestamp # NoTime THEN f.timestamp
                   ELSE [year |-> 0, week |-> 1],
     file |-> IF f.exists THEN f ELSE EmptyFile]

\* __init__ and load_weekly_post_data on the file `f`: the fields of the new controller
Loaded(f) ==
    [post_id |-> IF f.exists THEN f.post_id ELSE 0,
     timestamp |-> IF f.exists THEN f.timestamp ELSE NoTime,
     file |-> IF f.exists THEN f ELSE EmptyFile]

Init ==
    /\ team_members \in Rosters
    /\ max_name_length = MaxNameLength(team_members)
    /\ editable_weekly_post = NoPost
    /\ editable_weekly_post_id = Loaded(NoFile).post_id
    /\ weekly_post_timestamp = Loaded(NoFile).timestamp
    /\ file = Loaded(NoFile).file
    /\ channel = <<>>
    /\ streaks = [m \in Members |-> 0]
    /\ now = [year |-> 0, week |-> 1]
    /\ restarts = 0
    /\ inflight = <<>>
    /\ calls = 0
    /\ last = Call("__init__", 0, "ok")

\* the process stops and starts again: a new controller for the roster r
Restart(r) ==
    /\ restarts < MaxRestarts
    /\ restarts' = restarts + 1
    /\ team_members' = r
    /\ max_name_length' = MaxNameLength(r)
    /\ editable_weekly_post' = NoPost
    /\ editable_weekly_post_id' = Loaded(file).post_id
    /\ weekly_post_timestamp' = Loaded(file).timestamp
    /\ file' = Loaded(file).file
    /\ inflight' = <<>>
    /\ last' = Call("__init__", 0, "ok")
    /\ UNCHANGED <<channel, streaks, now>>

\* the comparison of line 71 turned round: a saved post of another week number is
\* taken to be this week's, and one of this week is not
SavedPostIsOfAnotherWeek ==
    /\ editable_weekly_post_id # 0
    /\ weekly_post_timestamp # NoTime
    /\ IsoWeek(now) # IsoWeek(weekly_post_timestamp)

\* line 71: the saved post is taken to be this week's
SavedPostIsCurrent ==
    /\ editable_weekly_post_id # 0
    /\ weekly_post_timestamp # NoTime
    /\ IsoWeek(now) = IsoWeek(weekly_post_timestamp)

\* initialize_post
InitializePost ==
    IF SavedPostIsCurrent
    THEN IF Live(channel, editable_weekly_post_id)
         THEN /\ editable_weekly_post' =
                    [id |-> editable_weekly_post_id,
                     content |-> channel[editable_weekly_post_id].content]
              /\ last' = Call("initialize_post", 0, "fetched")
              /\ UNCHANGED <<team_members, max_name_length, editable_weekly_post_id,
                             weekly_post_timestamp, file, channel, streaks, now,
                             restarts, inflight>>
         ELSE \* fetch_message raises NotFound
              /\ last' = Call("initialize_post", 0, "raised")
              /\ UNCHANGED <<team_members, max_name_length, editable_weekly_post,
                             editable_weekly_post_id, weekly_post_timestamp, file, channel,
                             streaks, now, restarts, inflight>>
    ELSE /\ Cardinality({i \in 1..Len(channel) : channel[i].kind = "title"}) < MaxPosts
         /\ Cardinality(Boards) < MaxPosts
         /\ LET headers == Send(Send(channel, "title", <<>>), "dates", <<>>)
                content == InitialContent(team_members, max_name_length, streaks)
            IN  IF team_members # <<>>
                THEN /\ channel' = Send(headers, "board", content)
                     /\ editable_weekly_post' = [id |-> Len(headers) + 1, content |-> content]
                     /\ file' = SavedFile(Len(headers) + 1)
                     /\ last' = Call("initialize_post", 0, "created")
                ELSE /\ channel' = headers
                     /\ last' = Call("initialize_post", 0, "no_members")
                     /\ UNCHANGED <<editable_weekly_post, file>>
         /\ UNCHANGED <<team_members, max_name_length, editable_weekly_post_id,
                        weekly_post_timestamp, streaks, now, restarts, inflight>>

\* update_post(member), the edit awaited to its end
UpdatePost(m) ==
    LET content == editable_weekly_post.content
        outcome == IF editable_weekly_post = NoPost THEN "raised"
                   ELSE UpdateOutcome(content, Name(m))
        new_content == UpdatedContent(content, Name(m), max_name_length, streaks[m])
    IN  /\ last' = Call("update_post", m, outcome)
        /\ IF outcome = "edited"
           THEN /\ Live(channel, editable_weekly_post.id)
                /\ channel' = Edited(channel, editable_weekly_post.id, new_content)
                /\ editable_weekly_post' = [editable_weekly_post EXCEPT !.content = new_content]
           ELSE UNCHANGED <<channel, editable_weekly_post>>
        /\ UNCHANGED <<team_members, max_name_length, editable_weekly_post_id,
                       weekly_post_timestamp, file, streaks, now, restarts, inflight>>

\* rebuild_post for the roster r and width w (the fields as the caller left them)
Rebuild(r, w, op, m) ==
    IF r # <<>> /\ editable_weekly_post = NoPost
    THEN LET content == MemberLine(Name(r[1]), w, FivePending, streaks[r[1]])
         IN  /\ Cardinality(Boards) < MaxPosts
             /\ channel' = Send(channel, "board", content)
             /\ editable_weekly_post' = [id |-> Len(channel) + 1, content |-> content]
             /\ file' = SavedFile(Len(channel) + 1)
             /\ last' = Call(op, m, "created")
    ELSE IF r = <<>>
    THEN /\ IF editable_weekly_post # NoPost
            THEN /\ Live(channel, editable_weekly_post.id)
                 /\ channel' = [channel EXCEPT ![editable_weekly_post.id].deleted = TRUE]
                 /\ last' = Call(op, m, "deleted")
            ELSE /\ channel' = channel
                 /\ last' = Call(op, m, "no_members")
         /\ editable_weekly_post' = NoPost
         /\ file' = file
    ELSE LET new_content == RebuiltContent(r, editable_weekly_post.content, w, streaks)
         IN  /\ Live(channel, editable_weekly_post.id)
             /\ channel' = Edited(channel, editable_weekly_post.id, new_content)
             /\ editable_weekly_post' = [editable_weekly_post EXCEPT !.content = new_content]
             /\ file' = file
             /\ last' = Call(op, m, "edited")

\* rebuild_post
RebuildPost ==
    /\ Rebuild(team_members, max_name_length, "rebuild_post", 0)
    /\ UNCHANGED <<team_members, max_name_length, editable_weekly_post_id,
                   weekly_post_timestamp, streaks, now, restarts, inflight>>

\* add_member_to_post(member)
AddMember(m) ==
    /\ ~InRoster(team_members, m)
    /\ Len(team_members) < MaxRoster
    /\ team_members' = Append(team_members, m)
    /\ max_name_length' = MaxNameLength(team_members')
    /\ Rebuild(team_members', max_name_length', "add_member_to_post", m)
    /\ UNCHANGED <<editable_weekly_post_id, weekly_post_timestamp, streaks, now, restarts,
                   inflight>>

\* remove_member_from_post(member)
RemoveMember(m) ==
    /\ InRoster(team_members, m)
    /\ team_members' = SelectSeq(team_members, LAMBDA x : x # m)
    /\ max_name_length' = MaxNameLength(team_members')
    /\ Rebuild(team_members', max_name_length', "remove_member_from_post", m)
    /\ UNCHANGED <<editable_weekly_post_id, weekly_post_timestamp, streaks, now, restarts,
                   inflight>>

\* update_streak that writes the new streak to every member's row
UpdateStreakOfEveryMember(m) ==
    /\ streaks[m] < MaxStreak
    /\ streaks' = [x \in Members |-> streaks[m] + 1]
    /\ last' = Call("update_streak", m, "ok")
    /\ UNCHANGED <<team_members, max_name_length, editable_weekly_post,
                   editable_weekly_post_id, weekly_post_timestamp, file, channel, now,
                   restarts, inflight>>

\* update_streak(member)
UpdateStreak(m) ==
    /\ streaks[m] < MaxStreak
    /\ streaks' = [streaks EXCEPT ![m] = streaks[m] + 1]
    /\ last' = Call("update_streak", m, "ok")
    /\ UNCHANGED <<team_members, max_name_length, editable_weekly_post,
                   editable_weekly_post_id, weekly_post_timestamp, file, channel, now,
                   restarts, inflight>>

\* reset_streaks that also lets go of the post of the week that ends
ResetStreaksAndDropPost ==
    /\ last' = Call("reset_streaks", 0, "ok")
    /\ streaks' = [m \in Members |->
                    IF /\ InRoster(team_members, m)
                       /\ editable_weekly_post # NoPost
                       /\ ~has_minimum_checkmarks(editable_weekly_post.content,
                                                  Name(m), max_name_length, 5)
                    THEN 0 ELSE streaks[m]]
    /\ editable_weekly_post' = NoPost
    /\ UNCHANGED <<team_members, max_name_length, editable_weekly_post_id,
                   weekly_post_timestamp, file, channel, now, restarts, inflight>>

\* reset_streaks: with no post the first has_minimum_checkmarks raises
ResetStreaks ==
    /\ IF team_members # <<>> /\ editable_weekly_post = NoPost
       THEN /\ last' = Call("reset_streaks", 0, "raised")
            /\ streaks' = streaks
       ELSE /\ last' = Call("reset_streaks", 0, "ok")
            /\ streaks' = [m \in Members |->
                            IF /\ InRoster(team_members, m)
                               /\ ~has_minimum_checkmarks(editable_weekly_post.content,
                                                          Name(m), max_name_length, 5)
                            THEN 0 ELSE streaks[m]]
    /\ UNCHANGED <<team_members, max_name_length, editable_weekly_post,
                   editable_weekly_post_id, weekly_post_timestamp, file, channel, now,
                   restarts, inflight>>

\* the clock reaches the next iso-week
WeekPasses ==
    /\ now.week < MaxWeek
    /\ now' = [now EXCEPT !.week = now.week + 1]
    /\ last' = Call("clock", 0, "week")
    /\ UNCHANGED <<team_members, max_name_length, editable_weekly_post,
                   editable_weekly_post_id, weekly_post_timestamp, file, channel, streaks,
                   restarts, inflight>>

\* the clock reaches the week of the same number one year on
YearPasses ==
    /\ now.year < MaxYear
    /\ now' = [now EXCEPT !.year = now.year + 1]
    /\ last' = Call("clock", 0, "year")
    /\ UNCHANGED <<team_members, max_name_length, editable_weekly_post,
                   editable_weekly_post_id, weekly_post_timestamp, file, channel, streaks,
                   restarts, inflight>>

\* a call counted against the run's budget
Counted(A) == calls < MaxCalls /\ calls' = calls + 1 /\ A

\* every handler, each call awaited to its end before the next; runs of MaxCalls calls
Next ==
    \/ \E r \in Rosters : Counted(Restart(r))
    \/ Counted(InitializePost)
    \/ \E m \in Members : Counted(UpdatePost(m))
    \/ Counted(RebuildPost)
    \/ \E m \in Members : Counted(AddMember(m))
    \/ \E m \in Members : Counted(RemoveMember(m))
    \/ \E m \in Members : Counted(UpdateStreak(m))
    \/ Counted(ResetStreaks)
    \/ Counted(WeekPasses)
    \/ Counted(YearPasses)

Spec == Init /\ [][Next]_vars

(* ------------------- a week of a team of two -------------------------- *)

\* a call outside the budget of the full specification
Free(A) == A /\ UNCHANGED calls

\* a call of a run in which one status post is sent
OnePost(A) == A /\ UNCHANGED calls /\ Cardinality(Boards') <= 1

\* Al and Alice
Pair == {1, 2}
PairRosters == {r \in Rosters : \A i \in 1..Len(r) : r[i] \in Pair}

InitPair == Init /\ team_members \in PairRosters

\* a member of the roster
OnRoster(m) == InRoster(team_members, m)

\* the check-ins of the roster's members in a week, the roster growing, a rebuild and a
\* restart, for Al and Alice
NextPair ==
    \/ \E r \in PairRosters : Free(Restart(r))
    \/ OnePost(InitializePost)
    \/ \E m \in Pair : OnRoster(m) /\ Free(UpdatePost(m))
    \/ OnePost(RebuildPost)
    \/ \E m \in Pair : OnePost(AddMember(m))

SpecPair == InitPair /\ [][NextPair]_vars

(* ----------------------- calls that overlap --------------------------- *)

\* the edit a call awaits (lines 132 and 297): the message, the content the call read
\* and the content it sends
Awaited(op, m, new_content) ==
    [op |-> op, member |-> m, id |-> editable_weekly_post.id,
     base |-> editable_weekly_post.content, content |-> new_content]

\* update_post(member) up to its await: lines 101-129 run without suspension
BeginUpdatePost(m) ==
    LET content == editable_weekly_post.content
        outcome == IF editable_weekly_post = NoPost THEN "raised"
                   ELSE UpdateOutcome(content, Name(m))
    IN  /\ IF outcome = "edited"
           THEN /\ Len(inflight) < MaxInFlight
                /\ inflight' = Append(inflight,
                        Awaited("update_post", m,
                                UpdatedContent(content, Name(m), max_name_length, streaks[m])))
                /\ last' = Call("update_post", m, "awaiting")
           ELSE /\ inflight' = inflight
                /\ last' = Call("update_post", m, outcome)
        /\ UNCHANGED <<team_members, max_name_length, editable_weekly_post,
                       editable_weekly_post_id, weekly_post_timestamp, file, channel,
                       streaks, now, restarts, calls>>

\* rebuild_post up to the await of line 297, for a roster and a post
BeginRebuildPost ==
    /\ team_members # <<>>
    /\ editable_weekly_post # NoPost
    /\ Len(inflight) < MaxInFlight
    /\ inflight' = Append(inflight,
            Awaited("rebuild_post", 0,
                    RebuiltContent(team_members, editable_weekly_post.content,
                                   max_name_length, streaks)))
    /\ last' = Call("rebuild_post", 0, "awaiting")
    /\ UNCHANGED <<team_members, max_name_length, editable_weekly_post,
                   editable_weekly_post_id, weekly_post_timestamp, file, channel,
                   streaks, now, restarts, calls>>

\* the oldest awaited edit returns (the edits of one message are sent in order): the
\* channel holds the content sent, and the call resumes and assigns the edited message
\* to self.editable_weekly_post
FinishEdit ==
    /\ inflight # <<>>
    /\ Live(channel, inflight[1].id)
    /\ channel' = Edited(channel, inflight[1].id, inflight[1].content)
    /\ editable_weekly_post' = [id |-> inflight[1].id, content |-> inflight[1].content]
    /\ inflight' = Tail(inflight)
    /\ last' = Call(inflight[1].op, inflight[1].member, "edited")
    /\ UNCHANGED <<team_members, max_name_length, editable_weekly_post_id,
                   weekly_post_timestamp, file, streaks, now, restarts, calls>>

\* handlers started while the edit of another is awaited (asyncio tasks of one loop),
\* for Al and Alice and one status post
NextConc ==
    \/ OnePost(InitializePost)
    \/ \E m \in Pair : OnRoster(m) /\ BeginUpdatePost(m)
    \/ BeginRebuildPost
    \/ FinishEdit

SpecConc == InitPair /\ [][NextConc]_vars

(* ----------------------- weeks and years pass ------------------------- *)

\* posts made and found again as the clock advances and the process restarts
NextClock ==
    \/ \E r \in Rosters : Free(Restart(r))
    \/ Free(InitializePost)
    \/ Free(WeekPasses)
    \/ Free(YearPasses)

SpecClock == Init /\ [][NextClock]_vars

(* ------------------------ the week is closed -------------------------- *)

\* check-ins and streaks of Al and Alice on one status post, and the reset of the
\* streaks at the end of the week
NextClose ==
    \/ OnePost(InitializePost)
    \/ \E m \in Pair : OnRoster(m) /\ Free(UpdatePost(m))
    \/ \E m \in Pair : OnRoster(m) /\ Free(UpdateStreak(m))
    \/ Free(ResetStreaks)

SpecClose == InitPair /\ [][NextClose]_vars

(* ------------------------ the roster changes -------------------------- *)

\* members come and go, the post is made, deleted with its last member and looked for
\* again after a restart
NextRoster ==
    \/ \E r \in Rosters : Free(Restart(r))
    \/ Free(InitializePost)
    \/ \E m \in Members : Free(AddMember(m))
    \/ \E m \in Members : Free(RemoveMember(m))

SpecRoster == Init /\ [][NextRoster]_vars

(* --------------------- the marks of one post -------------------------- *)

\* the check-ins of the roster's members, rebuilds, and members added and removed, on
\* one status post, for every name of the team
NextMarks ==
    \/ OnePost(InitializePost)
    \/ \E m \in Members : OnRoster(m) /\ Free(UpdatePost(m))
    \/ OnePost(RebuildPost)
    \/ \E m \in Members : OnePost(AddMember(m))
    \/ \E m \in Members : OnePost(RemoveMember(m))

SpecMarks == Init /\ [][NextMarks]_vars

(* --------------------- the platform fails once ------------------------ *)

\* update_post(member) whose edit (line 132) meets a failure of the platform that would
\* not recur: the exception leaves update_post, nothing is assigned
UpdatePostEditFails(m) ==
    /\ editable_weekly_post # NoPost
    /\ UpdateOutcome(editable_weekly_post.content, Name(m)) = "edited"
    /\ Live(channel, editable_weekly_post.id)
    /\ last' = Call("update_post", m, "transient_failure")
    /\ UNCHANGED <<team_members, max_name_length, editable_weekly_post,
                   editable_weekly_post_id, weekly_post_timestamp, file, channel,
                   streaks, now, restarts, inflight, calls>>

\* rebuild_post whose edit (line 297) meets such a failure
RebuildPostEditFails ==
    /\ team_members # <<>>
    /\ editable_weekly_post # NoPost
    /\ Live(channel, editable_weekly_post.id)
    /\ last' = Call("rebuild_post", 0, "transient_failure")
    /\ UNCHANGED <<team_members, max_name_length, editable_weekly_post,
                   editable_weekly_post_id, weekly_post_timestamp, file, channel,
                   streaks, now, restarts, inflight, calls>>

\* initialize_post whose fetch_message (line 72) meets such a failure
InitializePostFetchFails ==
    /\ SavedPostIsCurrent
    /\ Live(channel, editable_weekly_post_id)
    /\ last' = Call("initialize_post", 0, "transient_failure")
    /\ UNCHANGED <<team_members, max_name_length, editable_weekly_post,
                   editable_weekly_post_id, weekly_post_timestamp, file, channel,
                   streaks, now, restarts, inflight, calls>>

\* the calls of Al and Alice on one status post, each platform call succeeding or
\* failing once
NextFaults ==
    \/ \E r \in PairRosters : Free(Restart(r))
    \/ OnePost(InitializePost)
    \/ InitializePostFetchFails
    \/ \E m \in Pair : OnRoster(m) /\ Free(UpdatePost(m))
    \/ \E m \in Pair : OnRoster(m) /\ UpdatePostEditFails(m)
    \/ OnePost(RebuildPost)
    \/ RebuildPostEditFails

SpecFaults == InitPair /\ [][NextFaults]_vars

(* ---------------------- the post is damaged --------------------------- *)

\* a text that is not a status post: a line of Al with three marks
DamagedContent ==
    <<"#", " ", Tick>> \o Name(1) \o <<" ", Done, Pending, Pending, " ">>
    \o StreakStr(0) \o <<Tick>>

\* the message of the saved post is changed on the platform, outside the controller
\* (what fetch_message of line 72 returns is whatever the channel holds)
PostDamaged ==
    /\ Live(channel, file.post_id)
    /\ channel[file.post_id].content # DamagedContent
    /\ channel' = Edited(channel, file.post_id, DamagedContent)
    /\ last' = Call("platform", 0, "post_damaged")
    /\ UNCHANGED <<team_members, max_name_length, editable_weekly_post,
                   editable_weekly_post_id, weekly_post_timestamp, file, streaks, now,
                   restarts, inflight, calls>>

\* the calls of Al and Alice on one status post that may be damaged while the
\* process is down
NextDamage ==
    \/ \E r \in PairRosters : Free(Restart(r))
    \/ OnePost(InitializePost)
    \/ PostDamaged
    \/ \E m \in Pair : OnRoster(m) /\ Free(UpdatePost(m))
    \/ OnePost(RebuildPost)

SpecDamage == InitPair /\ [][NextDamage]_vars

(* -------------------- the vocabulary of the claims -------------------- *)

\* the lines of a post
Lines(content) == Split(content, "\n")

MarkSymbols == {Pending, Done}

\* the 0-based column of the first mark of a line, -1 when it has none
MarkColumn(line) ==
    LET at == {i \in 1..Len(line) : line[i] \in MarkSymbols}
    IN  IF at = {} THEN -1 ELSE MinOf(at) - 1

\* the name field of a line: what stands between the opening backquote and the
\* marks (or the streak annotation when there are no marks), without the padding
NameField(line) ==
    LET stops == {i \in 1..Len(line) : line[i] \in MarkSymbols \cup {"("}}
        end == IF stops = {} THEN Len(line) ELSE MinOf(stops) - 1
    IN  IF Len(line) >= 3 /\ SubSeq(line, 1, 3) = <<"#", " ", Tick>>
        THEN RStrip(SubSeq(line, 4, end))
        ELSE <<>>

\* the mark sequence of a line: the marks from the first one on
MarksOf(line) ==
    LET col == MarkColumn(line)
        run == {n \in 0..(Len(line) - col) :
                  \A k \in 1..n : line[col + k] \in MarkSymbols}
    IN  IF col = -1 THEN <<>>
        ELSE SubSeq(line, col + 1, col + (CHOOSE n \in run : \A k \in run : k <= n))

\* the streak annotation of a line: from the last "(" to the last ")"
AnnotationOf(line) ==
    LET opens == {i \in 1..Len(line) : line[i] = "("}
        closes == {i \in 1..Len(line) : line[i] = ")"}
    IN  IF opens = {} \/ closes = {} THEN <<>>
        ELSE SubSeq(line, CHOOSE i \in opens : \A j \in opens : j <= i,
                          CHOOSE i \in closes : \A j \in closes : j <= i)

\* the lines of the post that belong to member m: those whose name field is m's name
OwnLines(content, m) ==
    {i \in 1..Len(Lines(content)) : NameField(Lines(content)[i]) = Name(m)}

\* the number of done slots member m shows in the post: those of m's line, none without a line
DoneOf(content, m) ==
    IF OwnLines(content, m) = {} THEN 0
    ELSE Count(MarksOf(Lines(content)[MinOf(OwnLines(content, m))]), Done)

\* a mark sequence with its first pending slot done
FirstPendingDone(marks) ==
    LET at == {i \in 1..Len(marks) : marks[i] = Pending}
    IN  IF at = {} THEN marks ELSE [marks EXCEPT ![MinOf(at)] = Done]

\* two members of the roster, the name of one inside the name of the other
NamesOverlap(r) ==
    \E i, j \in 1..Len(r) : i # j /\ Contains(Name(r[j]), Name(r[i]))

BoardBefore == Lines(editable_weekly_post.content)
BoardAfter == Lines(editable_weekly_post'.content)

(* ------------------------------- claims ------------------------------- *)

\* C1: after update_post(m) for a roster member m, every line of the post other than
\* the line that belongs to m is what it was before the call (and no line appears or
\* disappears).
C1_OtherLinesUnchanged ==
    [][(last'.op = "update_post" /\ InRoster(team_members, last'.member)) =>
        /\ Len(BoardAfter) = Len(BoardBefore)
        /\ \A i \in 1..Len(BoardBefore) :
              NameField(BoardBefore[i]) # Name(last'.member) => BoardAfter[i] = BoardBefore[i]
      ]_vars

\* C2: with two roster members of which one's name is inside the other's,
\* update_post(m) that edits the post edits the line whose name field is m's name,
\* and no line of another member, in either roster order.
C2_EditsTheMembersOwnLine ==
    [][(/\ last'.op = "update_post" /\ last'.outcome = "edited"
        /\ InRoster(team_members, last'.member) /\ NamesOverlap(team_members)) =>
        /\ Len(BoardAfter) = Len(BoardBefore)
        /\ \E i \in 1..Len(BoardBefore) :
              NameField(BoardBefore[i]) = Name(last'.member) /\ BoardAfter[i] # BoardBefore[i]
        /\ \A i \in 1..Len(BoardBefore) :
              BoardAfter[i] # BoardBefore[i] => NameField(BoardBefore[i]) = Name(last'.member)
      ]_vars

\* C3: within a week, no update_post call (for whichever roster member) lowers the
\* number of done slots a roster member shows in the post.
C3_DoneCountNeverDecreases ==
    [][(last'.op = "update_post" /\ InRoster(team_members, last'.member) /\ now' = now) =>
        \A m \in Members :
            InRoster(team_members, m) =>
                DoneOf(editable_weekly_post'.content, m)
                    >= DoneOf(editable_weekly_post.content, m)
      ]_vars

\* C4: when the line of roster member m has a pending slot, update_post(m) makes exactly
\* the first pending slot of that line done (no other slot changes) and sets
\* the line's annotation to the streak of m in the store.
C4_FirstPendingOfOwnLineDone ==
    [][(last'.op = "update_post" /\ InRoster(team_members, last'.member)) =>
        \A i \in OwnLines(editable_weekly_post.content, last'.member) :
            (i = MinOf(OwnLines(editable_weekly_post.content, last'.member))
             /\ Pending \in {MarksOf(BoardBefore[i])[k] : k \in 1..Len(MarksOf(BoardBefore[i]))})
            => /\ Len(BoardAfter) = Len(BoardBefore)
               /\ MarksOf(BoardAfter[i]) = FirstPendingDone(MarksOf(BoardBefore[i]))
               /\ AnnotationOf(BoardAfter[i]) = StreakStr(streaks[last'.member])
      ]_vars

\* C7: rebuild_post called twice in a row, with nothing in between, leaves the post
\* content after the second call that the first call left.
C7_RebuildIdempotent ==
    [][(last.op = "rebuild_post" /\ last'.op = "rebuild_post") =>
        editable_weekly_post'.content = editable_weekly_post.content
      ]_vars

\* C8: in every state with a live post, the marks of every line start at the same column.
C8_MarksAligned ==
    editable_weekly_post # NoPost =>
        \A i, j \in 1..Len(Lines(editable_weekly_post.content)) :
            MarkColumn(Lines(editable_weekly_post.content)[i])
                = MarkColumn(Lines(editable_weekly_post.content)[j])

\* the slots of a line are all done
Complete(line) == MarksOf(line) = <<Done, Done, Done, Done, Done>>

\* C5: update_post(m) leaves the post as it is and sends no edit when m's line has
\* 5 of 5 slots done, or when m's name does not occur in the post.
C5_NoOpWhenCompleteOrUnknown ==
    [][(/\ last'.op = "update_post"
        /\ editable_weekly_post # NoPost
        /\ \/ ~Contains(editable_weekly_post.content, Name(last'.member))
           \/ /\ OwnLines(editable_weekly_post.content, last'.member) # {}
              /\ \A i \in OwnLines(editable_weekly_post.content, last'.member) :
                    Complete(BoardBefore[i]))
       => (editable_weekly_post' = editable_weekly_post /\ channel' = channel)
      ]_vars

\* C6: no check-in is lost to an overlapping call: when the awaited edit of a call
\* returns, every line that the call did not change keeps the text the post has by then.
C6_NoLostUpdate ==
    [][(inflight # <<>> /\ inflight' = Tail(inflight)) =>
        /\ Len(BoardAfter) = Len(BoardBefore)
        /\ \A k \in 1..Len(BoardBefore) :
              (k <= Len(Lines(inflight[1].base))
               /\ Lines(inflight[1].content)[k] = Lines(inflight[1].base)[k])
              => BoardAfter[k] = BoardBefore[k]
      ]_vars

\* C9: a controller constructed by a restart, whose file names a post of the current
\* iso-week that is in the channel, holds after initialize_post that post with the
\* content it had; no message is sent and the file is as it was.
C9_RestartKeepsTheWeeksPost ==
    [][(/\ last.op = "__init__"
        /\ last'.op = "initialize_post"
        /\ file.post_id # 0
        /\ file.timestamp = now
        /\ Live(channel, file.post_id))
       => /\ editable_weekly_post' =
                [id |-> file.post_id, content |-> channel[file.post_id].content]
          /\ channel' = channel
          /\ file' = file
      ]_vars

\* a restarted controller has fetched the post of the week that the file names
C9_Witness ==
    /\ last = Call("initialize_post", 0, "fetched")
    /\ restarts > 0
    /\ file.timestamp = now
    /\ editable_weekly_post.id = file.post_id
    /\ editable_weekly_post.content = channel[file.post_id].content

\* C10: initialize_post with a roster, when the file names no post or a post of a
\* prior week, sends a new post with one line per member in roster order (five pending
\* slots, the member's streak from the store), saves its id with the current time, and
\* deletes no earlier message.
C10_InitializeCreatesTheWeeksPost ==
    [][(/\ last'.op = "initialize_post"
        /\ team_members # <<>>
        /\ (file.post_id = 0 \/ file.timestamp # now))
       => /\ Len(channel') > Len(channel)
          /\ channel'[Len(channel')].kind = "board"
          /\ editable_weekly_post' =
                [id |-> Len(channel'), content |-> channel'[Len(channel')].content]
          /\ Len(BoardAfter) = Len(team_members)
          /\ \A i \in 1..Len(team_members) :
                /\ i <= Len(BoardAfter)
                /\ NameField(BoardAfter[i]) = Name(team_members[i])
                /\ MarksOf(BoardAfter[i]) = FivePending
                /\ AnnotationOf(BoardAfter[i]) = StreakStr(streaks[team_members[i]])
          /\ file' = [exists |-> TRUE, post_id |-> Len(channel'), timestamp |-> now]
          /\ \A k \in 1..Len(channel) : channel'[k] = channel[k]
      ]_vars

\* the status posts in the channel, undeleted, that were created in the current week
LivePostsOfTheWeek == {i \in Boards : ~channel[i].deleted /\ channel[i].created = now}

\* C11: in every reachable state the channel holds at most one undeleted status post
\* created in the current iso-week.
C11_OnePostPerWeek == Cardinality(LivePostsOfTheWeek) <= 1

\* the status posts, deleted or not, that were created in the current week
PostsOfTheWeek == {i \in Boards : channel[i].created = now}

\* the calls that change the content of the post
ContentCalls == {"update_post", "add_member_to_post", "remove_member_from_post", "rebuild_post"}

\* C12: once the week's status post exists (the file names a post created in the
\* current week, which the controller holds or has deleted), no check-in, added or
\* removed member or rebuild leaves the controller holding a post of another identifier.
C12_PostOfTheWeekNeverReplaced ==
    [][(/\ last'.op \in ContentCalls
        /\ file.post_id \in PostsOfTheWeek
        /\ \/ editable_weekly_post.id = file.post_id
           \/ editable_weekly_post = NoPost /\ channel[file.post_id].deleted
        /\ editable_weekly_post' # NoPost)
       => editable_weekly_post'.id = file.post_id
      ]_vars

\* C13: reset_streaks on a live post sets the streak to 0 for every roster member whose
\* own line has fewer than 5 done slots and leaves the streak of every roster member
\* whose own line has 5 done slots as it was.
C13_ResetFollowsOwnLine ==
    [][(last'.op = "reset_streaks" /\ editable_weekly_post # NoPost)
       => \A m \in Members : InRoster(team_members, m) =>
             IF DoneOf(editable_weekly_post.content, m) < 5
             THEN streaks'[m] = 0
             ELSE streaks'[m] = streaks[m]
      ]_vars

\* C14: reset_streaks changes streak values only: it sends, edits and deletes no message,
\* and the post the controller holds, the roster and the file are what they were.
C14_ResetChangesStreaksOnly ==
    [][last'.op = "reset_streaks"
       => /\ channel' = channel
          /\ editable_weekly_post' = editable_weekly_post
          /\ team_members' = team_members
          /\ file' = file
      ]_vars

\* the streaks were reset on a post where Alice has 5 done slots and a streak, and Al
\* has fewer
C14_Witness ==
    /\ last = Call("reset_streaks", 0, "ok")
    /\ team_members = <<2, 1>>
    /\ editable_weekly_post # NoPost
    /\ DoneOf(editable_weekly_post.content, 2) = 5
    /\ DoneOf(editable_weekly_post.content, 1) < 5
    /\ streaks[2] = 1
    /\ streaks[1] = 0

\* the mark sequence member m shows in a post: that of m's line
OwnMarks(content, m) == MarksOf(Lines(content)[MinOf(OwnLines(content, m))])

\* line i of a post is the line of member m, padded to the width w
LineOf(lines, i, m, w) ==
    /\ i <= Len(lines)
    /\ NameField(lines[i]) = Name(m)
    /\ MarkColumn(lines[i]) = w + 4

\* C15: add_member_to_post(m) on a live post in which m has no line yields one line per
\* roster member in roster order, every name padded to the new longest name; the line
\* of m is last, with five pending slots and the streak of m in the store; every member
\* that had a line keeps the mark sequence of that line.
C15_AddAppendsABlankLine ==
    [][(/\ last'.op = "add_member_to_post"
        /\ editable_weekly_post # NoPost
        /\ OwnLines(editable_weekly_post.content, last'.member) = {})
       => /\ Len(BoardAfter) = Len(team_members')
          /\ \A i \in 1..Len(team_members') :
                LineOf(BoardAfter, i, team_members'[i], MaxNameLength(team_members'))
          /\ MarksOf(BoardAfter[Len(BoardAfter)]) = FivePending
          /\ AnnotationOf(BoardAfter[Len(BoardAfter)]) = StreakStr(streaks[last'.member])
          /\ \A i \in 1..Len(team_members) :
                (i <= Len(BoardAfter) /\ OwnLines(editable_weekly_post.content, team_members[i]) # {})
                => MarksOf(BoardAfter[i]) = OwnMarks(editable_weekly_post.content, team_members[i])
      ]_vars

\* C16: remove_member_from_post(m) that leaves other members, on a live post, yields
\* one line per remaining member in roster order, every name padded to the longest
\* remaining name, and no line of m; every remaining member that had a line keeps the
\* mark sequence of that line.
C16_RemoveDropsTheMembersLine ==
    [][(/\ last'.op = "remove_member_from_post"
        /\ editable_weekly_post # NoPost
        /\ team_members' # <<>>)
       => /\ Len(BoardAfter) = Len(team_members')
          /\ OwnLines(editable_weekly_post'.content, last'.member) = {}
          /\ \A i \in 1..Len(team_members') :
                /\ LineOf(BoardAfter, i, team_members'[i], MaxNameLength(team_members'))
                /\ OwnLines(editable_weekly_post.content, team_members'[i]) # {}
                   => MarksOf(BoardAfter[i]) =
                         OwnMarks(editable_weekly_post.content, team_members'[i])
      ]_vars

\* C17: in every state in which the controller holds a post, for every roster member m,
\* has_minimum_checkmarks(m, n) is true exactly when m's own line has at least n done
\* slots (n from 1 to 5), and has_all_checkmarks(m) exactly when it has 5.
C17_PredicatesReadOwnLine ==
    editable_weekly_post # NoPost =>
        \A m \in Members : InRoster(team_members, m) =>
            /\ \A n \in 1..5 :
                  has_minimum_checkmarks(editable_weekly_post.content, Name(m),
                                         max_name_length, n)
                  <=> DoneOf(editable_weekly_post.content, m) >= n
            /\ has_all_checkmarks(editable_weekly_post.content, Name(m), max_name_length)
                  <=> DoneOf(editable_weekly_post.content, m) = 5

\* C18: initialize_post of a controller whose loaded post id is of the current week, but
\* whose post is no longer in the channel, does not fail: it ends without an exception
\* and the controller holds no post.
C18_FetchFailureIsNoPost ==
    [][(/\ last'.op = "initialize_post"
        /\ editable_weekly_post_id # 0
        /\ weekly_post_timestamp = now
        /\ ~Live(channel, editable_weekly_post_id))
       => /\ last'.outcome # "raised"
          /\ editable_weekly_post' = NoPost
      ]_vars

\* C19: while the controller holds no post and the roster is not empty, update_post of a
\* roster member and reset_streaks end without an exception, and the check-in leaves
\* the controller with a post.
C19_NoPostIsNoError ==
    [][(/\ editable_weekly_post = NoPost
        /\ team_members # <<>>
        /\ \/ last'.op = "reset_streaks"
           \/ last'.op = "update_post" /\ InRoster(team_members, last'.member))
       => /\ last'.outcome # "raised"
          /\ last'.op = "update_post" => editable_weekly_post' # NoPost
      ]_vars

\* a mark sequence of exactly 5 symbols, the done slots before the pending ones
WellFormedMarks(marks) ==
    /\ Len(marks) = 5
    /\ \A i \in 1..Len(marks) : marks[i] \in MarkSymbols
    /\ \A i, j \in 1..Len(marks) : (i < j /\ marks[j] = Done) => marks[i] = Done

C21_LoadToleratesAbsence ==
    /\ []((last.op = "__init__" /\ file.post_id = 0)
          => /\ editable_weekly_post_id = 0
             /\ weekly_post_timestamp = NoTime
             /\ editable_weekly_post = NoPost
             /\ file = EmptyFile)
    /\ [][(last.op = "__init__" /\ file.post_id = 0 /\ last'.op = "initialize_post")
          => last'.outcome \in {"created", "no_members"}]_vars

\* a restarted controller found a file without a record and its initialize_post sent
\* the first post of the channel
C21_Witness ==
    /\ restarts > 0
    /\ last = Call("initialize_post", 0, "created")
    /\ Cardinality(Boards) = 1
    /\ file.post_id = editable_weekly_post.id

\* C22: a call whose platform request fails once, the platform being available again
\* afterwards, has its effect applied: the check-in is in the post, the post is rebuilt,
\* the saved post is held.
C22_OneFailureIsRetried ==
    [][last'.outcome = "transient_failure" =>
        CASE last'.op = "update_post" ->
                editable_weekly_post'.content =
                    UpdatedContent(editable_weekly_post.content, Name(last'.member),
                                   max_name_length, streaks[last'.member])
          [] last'.op = "rebuild_post" ->
                editable_weekly_post'.content =
                    RebuiltContent(team_members, editable_weekly_post.content,
                                   max_name_length, streaks)
          [] OTHER ->
                editable_weekly_post' =
                    [id |-> editable_weekly_post_id,
                     content |-> channel[editable_weekly_post_id].content]
      ]_vars

\* C23: no call of the controller leaves it holding a post with a line whose marks are
\* not a well-formed mark sequence: a saved post with such content is taken as no post
\* and written afresh, and the content is not carried into later check-ins and rebuilds.
C23_DamagedPostIsNoPost ==
    [][(last'.op \in {"initialize_post"} \cup ContentCalls /\ editable_weekly_post' # NoPost)
       => \A i \in 1..Len(BoardAfter) : WellFormedMarks(MarksOf(BoardAfter[i]))
      ]_vars

\* C24: initialize_post takes the loaded post for the week's post only when its
\* timestamp lies in the iso-week of now, year and week number both; with a loaded post
\* of an earlier week and a roster it sends a new post.
C24_ReuseOnlyInTheSameIsoWeek ==
    [][last'.op = "initialize_post" =>
        /\ last'.outcome = "fetched" => weekly_post_timestamp = now
        /\ (editable_weekly_post_id # 0 /\ weekly_post_timestamp # now /\ team_members # <<>>)
           => last'.outcome = "created"
      ]_vars

\* C25: remove_member_from_post of the last member deletes the post the controller
\* holds and leaves it holding none; add_member_to_post on a controller that holds no
\* post sends a new post, saves its id, and the post has one line of five pending
\* slots for every member of the roster, in roster order.
C25_RosterEdgeCases ==
    [][/\ (/\ last'.op = "remove_member_from_post"
           /\ team_members' = <<>>
           /\ editable_weekly_post # NoPost)
          => /\ channel'[editable_weekly_post.id].deleted
             /\ editable_weekly_post' = NoPost
       /\ (last'.op = "add_member_to_post" /\ editable_weekly_post = NoPost)
          => /\ Len(channel') = Len(channel) + 1
             /\ channel'[Len(channel')].kind = "board"
             /\ editable_weekly_post'.id = Len(channel')
             /\ file'.post_id = Len(channel')
             /\ Len(BoardAfter) = Len(team_members')
             /\ \A i \in 1..Len(team_members') :
                   /\ i <= Len(BoardAfter)
                   /\ NameField(BoardAfter[i]) = Name(team_members'[i])
                   /\ MarksOf(BoardAfter[i]) = FivePending
      ]_vars

\* C26: every streak is a natural number in every state; update_streak(m) raises the
\* streak of m by exactly 1 and leaves every other streak alone; reset_streaks leaves a
\* streak alone or sets it to 0; no other operation writes a streak.
C26_StreaksChangeInTwoWays ==
    /\ [](\A m \in Members : streaks[m] \in Nat)
    /\ [][/\ last'.op = "update_streak"
             => streaks' = [streaks EXCEPT ![last'.member] = streaks[last'.member] + 1]
          /\ last'.op = "reset_streaks"
             => \A m \in Members : streaks'[m] \in {0, streaks[m]}
          /\ last'.op \notin {"update_streak", "reset_streaks"}
             => streaks' = streaks
         ]_vars

\* the streak of Alice was raised to 1 while that of Al stayed 0
C26_Witness ==
    /\ last = Call("update_streak", 2, "ok")
    /\ streaks[2] = 1
    /\ streaks[1] = 0

\* C27: in every state the saved post_id is absent or the id of the status post created
\* last; while the controller holds an undeleted post the saved post_id is the id of
\* that post; and the saved post_id never names a deleted post.
C27_SavedIdIsConsistent ==
    /\ file.post_id # 0
       => /\ file.post_id \in Boards
          /\ \A i \in Boards : i <= file.post_id
          /\ ~channel[file.post_id].deleted
    /\ (editable_weekly_post # NoPost /\ Live(channel, editable_weekly_post.id))
       => file.post_id = editable_weekly_post.id

\* C28: in every state max_name_length is the length of the longest name of the roster
\* (0 for an empty roster), and while the controller holds an undeleted post every line
\* of the post has its name padded to max_name_length, so that its marks start in
\* column max_name_length + 4.
C28_WidthIsConsistent ==
    /\ max_name_length = MaxNameLength(team_members)
    /\ (editable_weekly_post # NoPost /\ Live(channel, editable_weekly_post.id))
       => \A i \in 1..Len(Lines(editable_weekly_post.content)) :
             MarkColumn(Lines(editable_weekly_post.content)[i]) = max_name_length + 4
====
